---- MODULE Spec2Model ----
\* Model of the Remix adapter for Google Cloud Functions (server.ts).
\* The source holds two historical variants of the adapter: the one at lines
\* 34-156 ("first") and the one at lines 193-303 ("second").
EXTENDS Integers, Sequences, FiniteSets

\* ---------------------------------------------------------------- bounds
MaxInvocations == 2   \* concurrent invocations of the per-request handler
MaxValues == 2        \* longest array of values under one platform header name

Invocations == 1..MaxInvocations
Variants == {"first", "second"}

\* ------------------------------------------------------- JavaScript values
\* t: the type tag; s: a string's text; a: an array's elements;
\* e: an object's own enumerable entries, in insertion order.
Undefined == [t |-> "undefined", s |-> "", a |-> <<>>, e |-> <<>>]
Null == [t |-> "null", s |-> "", a |-> <<>>, e |-> <<>>]
Str(x) == [t |-> "string", s |-> x, a |-> <<>>, e |-> <<>>]
Arr(x) == [t |-> "array", s |-> "", a |-> x, e |-> <<>>]
Obj(x) == [t |-> "object", s |-> "", a |-> <<>>, e |-> x]

\* ToBoolean: undefined, null and "" are falsy; arrays and objects are truthy.
Truthy(v) ==
  CASE v.t = "undefined" -> FALSE
    [] v.t = "null" -> FALSE
    [] v.t = "string" -> v.s # ""
    [] OTHER -> TRUE

\* toString as a template literal applies it.
toString(v) ==
  CASE v.t = "undefined" -> "undefined"
    [] v.t = "null" -> "null"
    [] OTHER -> v.s

\* The keys a for-in loop visits: an object's entries, an array's indexes, a
\* string's character indexes (a non-empty string has at least index "0").
EnumerableKeys(v) ==
  CASE v.t = "object" -> [n \in 1..Len(v.e) |-> v.e[n][1]]
    [] v.t = "array" -> [n \in 1..Len(v.a) |-> "index"]
    [] v.t = "string" -> IF v.s = "" THEN <<>> ELSE <<"0">>
    [] OTHER -> <<>>

\* All sequences over S of length at most n.
SeqsUpTo(S, n) == UNION {[1..k -> S] : k \in 0..n}

\* ------------------------------------------------ the Headers container
\* list: the stored (name, value) entries; ops: the operations performed on it.
NewHeaders == [list |-> <<>>, ops |-> <<>>]

HeadersAppend(h, key, value) ==
  [list |-> Append(h.list, <<key, value>>),
   ops |-> Append(h.ops, <<"append", key, value>>)]

HeadersSet(h, key, value) ==
  [list |-> Append(SelectSeq(h.list, LAMBDA p : p[1] # key), <<key, value>>),
   ops |-> Append(h.ops, <<"set", key, value>>)]

\* The values stored under a name, in order.
HeaderValues(h, key) ==
  LET own == SelectSeq(h.list, LAMBDA p : p[1] = key)
  IN [n \in 1..Len(own) |-> own[n][2]]

\* The operations performed under a name, in order.
HeaderOps(h, key) == SelectSeq(h.ops, LAMBDA o : o[2] = key)

\* ------------------------------------------------------ createRemixHeaders
\* for (const value of values) headers.append(key, value)
RECURSIVE appendEach(_, _, _)
appendEach(h, key, values) ==
  IF values = <<>> THEN h
  ELSE appendEach(HeadersAppend(h, key, Head(values)), key, Tail(values))

\* headerEntry, had it stored an array as one comma-joined value.
headerEntryJoins(h, key, values) ==
  IF Truthy(values)
  THEN IF values.t = "array" THEN HeadersSet(h, key, "a=1, b=2")
       ELSE HeadersSet(h, key, values.s)
  ELSE h

\* headerEntry, had it not skipped the falsy values.
headerEntryKeepsFalsy(h, key, values) ==
  IF values.t = "array" THEN appendEach(h, key, values.a)
  ELSE HeadersSet(h, key, toString(values))

\* One iteration of the loop over Object.entries(requestHeaders).

headerEntry(h, key, values) ==
  IF Truthy(values)
  THEN IF values.t = "array" THEN appendEach(h, key, values.a)
       ELSE HeadersSet(h, key, values.s)
  ELSE h

RECURSIVE headerEntries(_, _)
headerEntries(h, entries) ==
  IF entries = <<>> THEN h
  ELSE headerEntries(headerEntry(h, Head(entries)[1], Head(entries)[2]), Tail(entries))

createRemixHeaders(requestHeaders) == headerEntries(NewHeaders, requestHeaders)

\* ------------------------------------------------------ hasBody, createRemixBody
\* hasBody, had it not looked for a key.
hasBodyTruthyOnly(req) == Truthy(req.body)


hasBody(req) ==
  IF ~Truthy(req.body) THEN FALSE
  ELSE IF EnumerableKeys(req.body) # <<>> THEN TRUE
  ELSE FALSE

\* application/x-www-form-urlencoded serialisation of one name or value: a
\* space becomes "+"; the other texts of the model have no reserved byte.
FormEncode(x) == IF x = "x y" THEN "x+y" ELSE x

\* URLSearchParams(entries).toString(): name=value pairs joined by "&".
RECURSIVE formSerialize(_)
formSerialize(entries) ==
  IF entries = <<>> THEN <<>>
  ELSE <<FormEncode(Head(entries)[1]), "=", FormEncode(Head(entries)[2])>>
       \o (IF Tail(entries) = <<>> THEN <<>> ELSE <<"&">>)
       \o formSerialize(Tail(entries))

\* Buffer.from(new URLSearchParams(req.body).toString()); a string body is
\* parsed as a query string, and a text without "=" is a name with no value.
createRemixBody(req) ==
  IF req.body.t = "string" THEN <<FormEncode(req.body.s), "=">>
  ELSE formSerialize(req.body.e)

\* ------------------------------------------------------ createRemixRequest
\* new URL(req.url, origin): the https scheme needs a non-empty host.
UrlParses(origin) == origin[3] # ""

NoRequest ==
  [threw |-> FALSE, error |-> "", href |-> <<>>, method |-> "",
   headers |-> NewHeaders, signal |-> 0, attached |-> FALSE, body |-> <<>>]

createRemixRequest(req, abortController) ==
  LET origin == <<req.protocol, "://", toString(req.host)>>
  IN IF ~UrlParses(origin)
     THEN [NoRequest EXCEPT !.threw = TRUE, !.error = "TypeError: Invalid URL"]
     ELSE [threw |-> FALSE, error |-> "",
           href |-> origin \o <<req.url>>,
           method |-> req.method,
           headers |-> createRemixHeaders(req.headers),
           signal |-> abortController,
           attached |-> hasBody(req),
           body |-> IF hasBody(req) THEN createRemixBody(req) ELSE <<>>]

\* ------------------------------------------------------------- the state
VARIABLES
  variant,          \* which variant of server.ts is deployed
  getLoadContext,   \* "function" when the integrator supplied one, else "none"
  pc,               \* per invocation: idle, pending, piping, done
  req,              \* per invocation: the platform request it was called with
  abortController,  \* per invocation: the controller it created
  aborted,          \* per controller: its signal's aborted flag
  request,          \* per invocation: the Standard Request it built
  response,         \* per invocation: the Standard Response the handler gave
  trace             \* per invocation: what it did, in order

vars ==
  <<variant, getLoadContext, pc, req, abortController, aborted, request,
    response, trace>>

\* An event of an invocation. on: the platform response written to (0: none).
Ev(op, k, v, n, on) == [op |-> op, k |-> k, v |-> v, n |-> n, on |-> on]

\* The operations that write to a platform response.
ResOps == {"statusMessage", "status", "append", "set", "send", "pipe", "end"}
\* The operations that finish, or start finishing, its body.
TerminalOps == {"send", "pipe", "end"}

\* ------------------------------------------------------------ the inputs
HeaderNames == {"set-cookie", "x-a"}
HeaderTexts == {"a=1", "b=2"}
\* What a platform header name can map to.
HeaderInputs ==
  {Undefined, Null, Str(""), Str("a=1")}
    \cup {Arr(q) : q \in SeqsUpTo(HeaderTexts, MaxValues)}
\* A platform header mapping: entries in insertion order, names lower-cased
\* and distinct, as the platform's HTTP parser delivers them.
HeaderMappings ==
  {m \in SeqsUpTo(HeaderNames \X HeaderInputs, Cardinality(HeaderNames)) :
     \A x, y \in DOMAIN m : x # y => m[x][1] # m[y][1]}

BodyKeys == {"a", "b"}
BodyTexts == {"1", "x y"}
\* What the platform's body parser leaves in req.body: nothing, an empty
\* text, a text, or an object of parsed fields (empty when nothing was sent).
BodyInputs ==
  {Undefined, Null, Str(""), Str("hi")}
    \cup {Obj(q) : q \in {m \in SeqsUpTo(BodyKeys \X BodyTexts, Cardinality(BodyKeys)) :
                            \A x, y \in DOMAIN m : x # y => m[x][1] # m[y][1]}}

\* What req.get("host") returns: a host, an empty Host header, or nothing.
HostInputs == {Str("example.com"), Str(""), Undefined}

PlatformRequest(method, host, headers, body) ==
  [method |-> method, protocol |-> "https", host |-> host, url |-> "/foo?x=1",
   headers |-> headers, body |-> body]

\* The platform requests the concurrent bridge is driven with: one per host.
BridgeRequests ==
  {PlatformRequest("POST", h, <<<<"set-cookie", Arr(<<"a=1", "b=2">>)>>>>,
                   Obj(<<<<"a", "1">>>>)) : h \in HostInputs}

NoPlatformRequest == PlatformRequest("", Undefined, <<>>, Undefined)

\* A Standard Response: status, statusText, headers.raw() as entries of a name
\* and its values, and a body that is a Buffer, a string, a stream or absent.
NodeResponse(status, statusText, headers, kind, text) ==
  [status |-> status, statusText |-> statusText, headers |-> headers,
   body |-> [t |-> kind, s |-> text]]

ResponseHeaders == <<<<"x-test", <<"v1", "v2">>>>, <<"set-cookie", <<"a=1">>>>>>

\* The Standard Responses the framework handler resolves with: one per shape
\* of body, with and without headers.
Responses ==
  {NodeResponse(201, "Created", ResponseHeaders, "string", "ok"),
   NodeResponse(200, "OK", <<>>, "buffer", "bytes"),
   NodeResponse(200, "OK", ResponseHeaders, "stream", "chunks"),
   NodeResponse(204, "No Content", <<>>, "null", "")}

NoResponse == NodeResponse(0, "", <<>>, "none", "")

\* The errors the framework handler rejects with.
Errors == {"e1", "e2"}

\* ---------------------------------------------------------------- Init
Init ==
  /\ variant \in Variants
  /\ getLoadContext \in {"none", "function"}
  /\ pc = [i \in Invocations |-> "idle"]
  /\ req = [i \in Invocations |-> NoPlatformRequest]
  /\ abortController = [i \in Invocations |-> 0]
  /\ aborted = [c \in Invocations |-> FALSE]
  /\ request = [i \in Invocations |-> NoRequest]
  /\ response = [i \in Invocations |-> NoResponse]
  /\ trace = [i \in Invocations |-> <<>>]

\* ------------------------------------------------------ sendRemixResponse
\* for (const value of values) res.append(key, value)
RECURSIVE appendValues(_, _, _)
appendValues(res, key, values) ==
  IF values = <<>> THEN <<>>
  ELSE <<Ev("append", key, Head(values), 0, res)>> \o appendValues(res, key, Tail(values))

\* for (let [key, values] of Object.entries(nodeResponse.headers.raw()))
RECURSIVE appendHeaders(_, _)
appendHeaders(res, raw) ==
  IF raw = <<>> THEN <<>>
  ELSE appendValues(res, Head(raw)[1], Head(raw)[2]) \o appendHeaders(res, Tail(raw))

\* connectionClose, had its condition been inverted.
connectionCloseInverted(res, controller) ==
  IF ~aborted[controller] THEN <<Ev("set", "Connection", "close", 0, res)>> ELSE <<>>

\* if (abortController.signal.aborted) res.set("Connection", "close")
connectionClose(res, controller) ==
  IF aborted[controller] THEN <<Ev("set", "Connection", "close", 0, res)>> ELSE <<>>

\* The three-way branch on the body, as each variant writes it.
finalizeBody(res, body) ==
  IF variant = "first"
  THEN IF body.t \in {"buffer", "string"} THEN <<Ev("send", body.t, body.s, 0, res)>>
       ELSE IF body.t = "stream"
            THEN <<Ev("on", "end", "res.end", 0, 0), Ev("pipe", "stream", body.s, 0, res)>>
            ELSE <<Ev("end", "", "", 0, res)>>
  ELSE IF body.t = "buffer" THEN <<Ev("end", body.t, body.s, 0, res)>>
       ELSE IF body.t = "stream" THEN <<Ev("pipe", "stream", body.s, 0, res)>>
            ELSE <<Ev("end", "", "", 0, res)>>

\* sendRemixResponse, had it finished the body before copying the headers.
sendRemixResponseBodyFirst(res, nodeResponse, controller) ==
  <<Ev("statusMessage", "", nodeResponse.statusText, 0, res),
    Ev("status", "", "", nodeResponse.status, res)>>
    \o connectionClose(res, controller)
    \o finalizeBody(res, nodeResponse.body)
    \o appendHeaders(res, nodeResponse.headers)

sendRemixResponse(res, nodeResponse, controller) ==
  <<Ev("statusMessage", "", nodeResponse.statusText, 0, res),
    Ev("status", "", "", nodeResponse.status, res)>>
    \o appendHeaders(res, nodeResponse.headers)
    \o connectionClose(res, controller)
    \o finalizeBody(res, nodeResponse.body)

\* ------------------------------------------------- the per-request handler
\* NewAbortController, had the controller been created once, outside the
\* per-request handler.
SharedAbortController(i) == 1

\* new AbortController(): a fresh object, named after the invocation that
\* allocated it.
NewAbortController(i) == i

\* typeof getLoadContext === "function" ? getLoadContext(req, res) : <default>
loadContext ==
  IF getLoadContext = "function" THEN "context"
  ELSE IF variant = "first" THEN "undefined" ELSE "{}"

\* catch, had it called next without the error.
catchDropsError(error) == <<Ev("next", "", "", 0, 0)>>

\* catch (error) { next(error) }
catch(error) == <<Ev("next", "", error, 0, 0)>>

\* The synchronous part of the handler, up to the await: the controller, the
\* Standard Request, the load context and the call of the framework handler.
Invoke(i, r) ==
  /\ pc[i] = "idle"
  /\ LET controller == NewAbortController(i)
         built == createRemixRequest(r, controller)
     IN /\ req' = [req EXCEPT ![i] = r]
        /\ abortController' = [abortController EXCEPT ![i] = controller]
        /\ request' = [request EXCEPT ![i] = built]
        /\ IF built.threw
           THEN /\ trace' = [trace EXCEPT ![i] = catch(built.error)]
                /\ pc' = [pc EXCEPT ![i] = "done"]
           ELSE /\ trace' = [trace EXCEPT ![i] =
                       <<Ev("createRemixRequest", "", "", 0, 0)>>
                         \o (IF getLoadContext = "function"
                             THEN <<Ev("getLoadContext", "", "", 0, 0)>> ELSE <<>>)
                         \o <<Ev("handleRequest", "", loadContext, 0, 0)>>]
                /\ pc' = [pc EXCEPT ![i] = "pending"]
  /\ UNCHANGED <<variant, getLoadContext, aborted, response>>

\* The platform (or the framework) triggers the invocation's controller.
Abort(i) ==
  /\ pc[i] \in {"pending", "piping"}
  /\ ~aborted[abortController[i]]
  /\ aborted' = [aborted EXCEPT ![abortController[i]] = TRUE]
  /\ trace' = [trace EXCEPT ![i] = Append(@, Ev("abort", "", "", 0, 0))]
  /\ UNCHANGED <<variant, getLoadContext, pc, req, abortController, request, response>>

\* The framework handler resolves; the handler resumes and emits the response.
Resolve(i, nodeResponse) ==
  /\ pc[i] = "pending"
  /\ response' = [response EXCEPT ![i] = nodeResponse]
  /\ trace' = [trace EXCEPT ![i] =
         @ \o <<Ev("resolved", "", "", 0, 0)>>
           \o sendRemixResponse(i, nodeResponse, abortController[i])]
  /\ pc' = [pc EXCEPT ![i] = IF nodeResponse.body.t = "stream" THEN "piping" ELSE "done"]
  /\ UNCHANGED <<variant, getLoadContext, req, abortController, aborted, request>>

\* The framework handler rejects; the handler resumes in its catch block.
Reject(i, error) ==
  /\ pc[i] = "pending"
  /\ trace' = [trace EXCEPT ![i] = @ \o <<Ev("rejected", "", error, 0, 0)>> \o catch(error)]
  /\ pc' = [pc EXCEPT ![i] = "done"]
  /\ UNCHANGED <<variant, getLoadContext, req, abortController, aborted, request, response>>

\* The piped stream ends. pipe() ends its destination. The first variant has
\* also registered res.end, detached from res, as a listener that runs before
\* pipe's: called with the stream as its receiver it either throws (and no
\* later listener runs) or, where end does not depend on its receiver, ends res.
StreamEnd(i, listenerThrows) ==
  /\ pc[i] = "piping"
  /\ trace' = [trace EXCEPT ![i] =
         @ \o (IF variant = "first"
               THEN IF listenerThrows
                    THEN <<Ev("uncaught", "", "TypeError", 0, 0)>>
                    ELSE <<Ev("end", "listener", "", 0, i), Ev("end", "pipe", "", 0, i)>>
               ELSE <<Ev("end", "pipe", "", 0, i)>>)]
  /\ pc' = [pc EXCEPT ![i] = "done"]
  /\ UNCHANGED <<variant, getLoadContext, req, abortController, aborted, request, response>>

Next ==
  \/ \E i \in Invocations, r \in BridgeRequests : Invoke(i, r)
  \/ \E i \in Invocations : Abort(i)
  \/ \E i \in Invocations, nodeResponse \in Responses : Resolve(i, nodeResponse)
  \/ \E i \in Invocations, error \in Errors : Reject(i, error)
  \/ \E i \in Invocations, listenerThrows \in BOOLEAN : StreamEnd(i, listenerThrows)

Spec == Init /\ [][Next]_vars

\* Request translation alone: one invocation, over every platform request.
Translate ==
  /\ pc[1] = "idle"
  /\ \E method \in {"GET", "POST"}, host \in HostInputs, headers \in HeaderMappings,
        body \in BodyInputs :
       Invoke(1, PlatformRequest(method, host, headers, body))

SpecTranslate == Init /\ [][Translate]_vars

\* ------------------------------------------------------------ the claims
\* The positions of a trace whose operation is one of ops.
Positions(t, ops) == {n \in DOMAIN t : t[n].op \in ops}
HasOp(t, op) == Positions(t, {op}) # {}
\* Every write made to platform response r, by any invocation.
WrittenTo(r) ==
  {<<i, n>> \in Invocations \X (1..20) :
     n \in DOMAIN trace[i] /\ trace[i][n].op \in ResOps /\ trace[i][n].on = r}
Built(i) == pc[i] # "idle" /\ ~request[i].threw

\* C1: when the framework handler rejects with an error e, next is called
\* once, with exactly e, and the platform response receives no write.
C1_RejectionForwarded ==
  \A i \in Invocations : \A n \in Positions(trace[i], {"rejected"}) :
    /\ SelectSeq(trace[i], LAMBDA x : x.op = "next")
         = <<Ev("next", "", trace[i][n].v, 0, 0)>>
    /\ WrittenTo(i) = {}

C1_Witness ==
  \E i \in Invocations : pc[i] = "done" /\ HasOp(trace[i], "rejected")
    /\ HasOp(trace[i], "abort")

\* C2: after the handler resolves, emission performs exactly one terminal
\* action (a send, a pipe or an empty end), and a piped stream's completion
\* ends the platform response exactly once.
C2_ExactlyOneTerminal ==
  \A i \in Invocations : HasOp(trace[i], "resolved") =>
    LET t == trace[i]
        fromStream == {n \in Positions(t, {"end"}) : t[n].k \in {"listener", "pipe"}}
        direct == Positions(t, TerminalOps) \ fromStream
    IN /\ Cardinality(direct) = 1
       /\ Cardinality(fromStream) <= 1
       /\ (pc[i] = "done" /\ HasOp(t, "pipe")) => Cardinality(fromStream) = 1

\* C3: when the invocation's signal is aborted as emission runs, Connection is
\* set to close before the terminal body action, whatever the body's shape;
\* when it is not aborted, Connection is never set.
C3_ConnectionClose ==
  \A i \in Invocations : \A r \in Positions(trace[i], {"resolved"}) :
    LET t == trace[i]
        abortedAt == \E a \in 1..(r - 1) : t[a].op = "abort"
        sets == {n \in Positions(t, {"set"}) : t[n].k = "Connection"}
    IN IF abortedAt
       THEN /\ Positions(t, TerminalOps) # {}
            /\ \E s \in sets :
                 /\ t[s].v = "close" /\ t[s].on = i
                 /\ \A x \in Positions(t, TerminalOps) : s < x
       ELSE sets = {}

C3_Witness ==
  \E i \in Invocations :
    /\ response[i].body.t = "stream"
    /\ \E a, r \in DOMAIN trace[i] :
         a < r /\ trace[i][a].op = "abort" /\ trace[i][r].op = "resolved"
    /\ HasOp(trace[i], "pipe")

\* C4: the Standard Request is built before the framework handler is called,
\* every write to the platform response follows the handler's resolution, and
\* every header append precedes the terminal body action.
C4_Ordering ==
  \A i \in Invocations :
    LET t == trace[i]
    IN /\ \A h \in Positions(t, {"handleRequest"}) :
            \E c \in Positions(t, {"createRemixRequest"}) : c < h
       /\ \A w \in Positions(t, ResOps) :
            \E r \in Positions(t, {"resolved"}) :
              r < w /\ \E h \in Positions(t, {"handleRequest"}) : h < r
       /\ \A a \in Positions(t, {"append"}), x \in Positions(t, TerminalOps) : a < x
       /\ pc[i] = "pending" => WrittenTo(i) = {}

C4_Witness ==
  \E i \in Invocations :
    /\ pc[i] = "done"
    /\ HasOp(trace[i], "append") /\ HasOp(trace[i], "send")
    /\ HasOp(trace[i], "getLoadContext")

\* C5: when the platform request supplies no host, building the Standard
\* Request fails, the failure goes to next, the framework handler is not
\* called and the platform response receives no write.
C5_MissingHostFails ==
  \A i \in Invocations : (pc[i] # "idle" /\ req[i].host = Undefined) =>
    /\ request[i].threw
    /\ SelectSeq(trace[i], LAMBDA x : x.op = "next")
         = <<Ev("next", "", request[i].error, 0, 0)>>
    /\ ~HasOp(trace[i], "handleRequest")
    /\ WrittenTo(i) = {}

\* C6: a name mapped to an array of N values gets N appends and holds those
\* values as separate entries in the original order; a name mapped to one
\* string gets exactly one set.
C6_ArrayValuesAppended ==
  \A i \in Invocations : Built(i) =>
    \A n \in DOMAIN req[i].headers :
      LET key == req[i].headers[n][1]
          values == req[i].headers[n][2]
          h == request[i].headers
      IN /\ values.t = "array" =>
              /\ HeaderOps(h, key)
                   = [m \in 1..Len(values.a) |-> <<"append", key, values.a[m]>>]
              /\ HeaderValues(h, key) = values.a
         /\ (values.t = "string" /\ values.s # "") =>
              /\ HeaderOps(h, key) = <<<<"set", key, values.s>>>>
              /\ HeaderValues(h, key) = <<values.s>>

C6_Witness ==
  /\ Built(1)
  /\ req[1].headers = <<<<"set-cookie", Arr(<<"a=1", "b=2">>)>>, <<"x-a", Str("a=1")>>>>
  /\ HeaderValues(request[1].headers, "set-cookie") = <<"a=1", "b=2">>

\* C7: a name whose value is falsy or absent is absent from the translated
\* collection, and its presence changes nothing stored for the other names.
C7_FalsyAbsent ==
  \A i \in Invocations : Built(i) =>
    LET m == req[i].headers
        h == request[i].headers
    IN /\ \A n \in DOMAIN m : ~Truthy(m[n][2]) =>
            /\ HeaderValues(h, m[n][1]) = <<>>
            /\ HeaderOps(h, m[n][1]) = <<>>
       /\ h = createRemixHeaders(SelectSeq(m, LAMBDA p : Truthy(p[2])))

C7_Witness ==
  /\ Built(1)
  /\ req[1].headers = <<<<"x-a", Str("")>>, <<"set-cookie", Arr(<<"a=1", "b=2">>)>>>>
  /\ Len(request[1].headers.list) = 2

\* C8: the Standard Request carries a body exactly when the parsed body is
\* truthy and has an enumerable key; undefined, null and {} attach nothing and
\* serialise nothing; the method and the URL do not depend on the body.
C8_BodyPresence ==
  \A i \in Invocations : Built(i) =>
    LET b == req[i].body
        present == /\ b.t \notin {"undefined", "null"}
                   /\ b # Str("")
                   /\ (b.t = "object" => Len(b.e) > 0)
    IN /\ request[i].attached <=> present
       /\ request[i].attached <=> request[i].body # <<>>
       /\ b \in {Undefined, Null, Obj(<<>>)} => ~request[i].attached
       /\ request[i].method = req[i].method
       /\ request[i].href
            = <<req[i].protocol, "://", toString(req[i].host), req[i].url>>

C8_Witness ==
  /\ Built(1)
  /\ req[1].body = Obj(<<>>)
  /\ ~request[1].attached
  /\ req[1].method = "POST"

\* The (name, value) pairs of a header collection, in order.
RECURSIVE Pairs(_)
Pairs(raw) ==
  IF raw = <<>> THEN <<>>
  ELSE [n \in 1..Len(Head(raw)[2]) |-> <<Head(raw)[1], Head(raw)[2][n]>>]
       \o Pairs(Tail(raw))

\* C9: after emission the platform response has the response's status code and
\* text, one appended header per (name, value) pair in order, and, for a Buffer
\* or string body, a single terminal write whose payload is that body.
C9_ResponseCopied ==
  \A i \in Invocations : HasOp(trace[i], "resolved") =>
    LET t == trace[i]
        appends == SelectSeq(t, LAMBDA x : x.op = "append")
        terminal == SelectSeq(t, LAMBDA x : x.op \in TerminalOps)
    IN /\ SelectSeq(t, LAMBDA x : x.op = "status")
            = <<Ev("status", "", "", response[i].status, i)>>
       /\ SelectSeq(t, LAMBDA x : x.op = "statusMessage")
            = <<Ev("statusMessage", "", response[i].statusText, 0, i)>>
       /\ [n \in 1..Len(appends) |-> <<appends[n].k, appends[n].v>>]
            = Pairs(response[i].headers)
       /\ response[i].body.t \in {"buffer", "string"} =>
            /\ Len(terminal) = 1
            /\ terminal[1].op \in {"send", "end"}
            /\ terminal[1].v = response[i].body.s

\* C10: every invocation has its own controller; aborting one invocation's
\* signal never makes another see an aborted signal or set Connection: close,
\* and an invocation writes only to its own platform response.
C10_Isolation ==
  \A i \in Invocations :
    /\ \A n \in Positions(trace[i], ResOps) : trace[i][n].on = i
    /\ (pc[i] # "idle" /\ aborted[abortController[i]]) => HasOp(trace[i], "abort")
    /\ (\E n \in Positions(trace[i], {"set"}) : trace[i][n].k = "Connection")
         => HasOp(trace[i], "abort")
    /\ Built(i) => request[i].signal = abortController[i]
    /\ \A j \in Invocations \ {i} :
         (pc[i] # "idle" /\ pc[j] # "idle") => abortController[i] # abortController[j]

C10_Witness ==
  \E i, j \in Invocations :
    /\ i # j
    /\ HasOp(trace[i], "abort") /\ HasOp(trace[i], "set")
    /\ HasOp(trace[j], "resolved") /\ ~HasOp(trace[j], "set") /\ ~HasOp(trace[j], "abort")

====
